---- MODULE Spec2Model ----
(***************************************************************************)
(* Activation propagation and decision processes of the repository:        *)
(* Input, BottomUp, TopDown, Choice (pyClarion/components/elementary.py),  *)
(* Accumulator and AccumulationAgent (agent.py), wired as agent.py wires   *)
(* them: Input -> BottomUp -> TopDown -> Accumulator -> Choice.            *)
(* BottomUp, TopDown and Pool are also driven on their own, over weights,  *)
(* inputs and registrations of any value.                                  *)
(*                                                                         *)
(* Values are integers in units of 1.0.  The scheduler (System), Site and  *)
(* the NumDict algebra are not part of the sources; they are modelled from *)
(* the specification's description of them.                                *)
(***************************************************************************)
EXTENDS Integers, Sequences, FiniteSets, TLC

VARIABLES
    sites,      \* site name -> current value (a dense key -> number mapping)
    queue,      \* pending events, in delivery order
    last,       \* the event System.advance delivered last
    calls,      \* number of external calls made so far
    err,        \* the last Input.send call: its payload and what it raised
    polled,     \* what the last Choice.poll() returned
    pollsSince, \* polls made since a choice.select event was last applied
    nTouch,     \* delivered events that touched accumulator.input since Init
    sent,       \* the data of the sends accepted so far
    nClear,     \* calls of accumulator.clear() so far
    choiceRank, \* where Priority.CHOICE sorts among the priorities
    reset,      \* Input.reset
    loop,       \* the trial loop of agent.py: its place, trial and results
    pool        \* a Pool's registry: its inputs and their pre-transforms

vars == <<sites, queue, last, calls, err, polled, pollsSince, nTouch, sent, nClear,
          choiceRank, reset, loop, pool>>

----------------------------------------------------------------------------
\* Bounds of the model.

MaxCalls == 3       \* external calls (send, clear, trigger, ...) per run
NoiseMax == 1       \* the largest noise drawn per key, in units of 1.0
MaxTrials == 2      \* trials run by the trial loop of agent.py

----------------------------------------------------------------------------
\* Keys and values.

NaN == 999

Threshold == 4

Vals == {"left", "right"}
InFeat == {<<"input", v>> : v \in Vals}
OutFeat == {<<"output", v>> : v \in Vals}
Chunks == {"cl", "cr"}
WKeys(feat) == {<<c, k[1], k[2]>> : c \in Chunks, k \in feat}

ChunkVal(c) == IF c = "cl" THEN "left" ELSE "right"

\* Position of a key among the keys of its group; argmax keeps the first
\* maximal key.
KeyOrd(k) == IF k[2] = "left" THEN 0 ELSE 1

SiteNames == {"in_main", "bu_main", "bu_weights", "td_main", "td_weights",
              "acc_main", "ch_main", "ch_sample", "ch_bias", "ch_params"}

Index(site) ==
    CASE site = "in_main" -> InFeat
      [] site = "bu_main" -> Chunks
      [] site = "bu_weights" -> WKeys(InFeat)
      [] site = "td_main" -> OutFeat
      [] site = "td_weights" -> WKeys(OutFeat)
      [] site = "ch_params" -> {"sd"}
      [] OTHER -> OutFeat

\* The default constant c each Site is constructed with.
SiteConst(site) ==
    IF site \in {"bu_weights", "td_weights", "ch_sample"} THEN NaN ELSE 0

\* Wiring of the lax input sites.
BuInput == "in_main"
TdInput == "bu_main"
AccInput == "td_main"
ChoiceInput == "acc_main"

----------------------------------------------------------------------------
\* The numeric algebra (NumDict), on dense mappings.

Add(a, b) == IF a = NaN \/ b = NaN THEN NaN ELSE a + b
Mul(a, b) == IF a = NaN \/ b = NaN THEN NaN ELSE a * b

MaxOfSet(S) == IF NaN \in S THEN NaN ELSE CHOOSE x \in S : \A y \in S : y <= x
MinOfSet(S) == IF NaN \in S THEN NaN ELSE CHOOSE x \in S : \A y \in S : x <= y

\* NumDict.max() with no key form: the largest entry.
MaxEntry(f) == MaxOfSet({f[k] : k \in DOMAIN f})

\* The sum of f over the keys S.
RECURSIVE SumOver(_, _)
SumOver(S, f) ==
    IF S = {} THEN 0
    ELSE LET x == CHOOSE y \in S : TRUE IN Add(f[x], SumOver(S \ {x}, f))

\* NumDict.sum(other): elementwise sum.
NdSum(f, g) == [k \in DOMAIN f |-> Add(f[k], g[k])]

\* argmax(by): one key per group (keys sharing the dimension), the first
\* among the maximal ones.
Groups(f) == {k[1] : k \in DOMAIN f}
ArgMaxBy(f) ==
    [g \in Groups(f) |->
        LET ks == {k \in DOMAIN f : k[1] = g}
            best == {k \in ks : \A j \in ks : f[j] <= f[k]}
        IN CHOOSE k \in best : \A j \in best : KeyOrd(k) <= KeyOrd(j)]

----------------------------------------------------------------------------
\* Site: update records and their application.

\* Site.update(data) without a method overwrites the value (history push).
DefaultMethod == "push"

Update(site, method, data) == [site |-> site, method |-> method, data |-> data]

\* Site.push: the new value holds data, every other key the site's constant.
\* Site.write_inplace: the keys of data are written, the others kept.
ApplyUpdate(s, u) ==
    [s EXCEPT ![u.site] =
        [k \in DOMAIN s[u.site] |->
            IF k \in DOMAIN u.data THEN u.data[k]
            ELSE IF u.method = "push" THEN SiteConst(u.site)
            ELSE s[u.site][k]]]

RECURSIVE ApplyAll(_, _)
ApplyAll(s, ups) ==
    IF ups = <<>> THEN s ELSE ApplyAll(ApplyUpdate(s, Head(ups)), Tail(ups))

\* Site.affected_by(*updates): some update targets this site.
AffectedBy(site, ups) == \E i \in 1..Len(ups) : ups[i].site = site

Touched(ups) == {ups[i].site : i \in 1..Len(ups)}

----------------------------------------------------------------------------
\* System: the event queue, ordered by (time, priority, enqueue sequence).
\* Times are kept relative to the current instant.

Rank(prio) ==
    CASE prio = "PROPAGATION" -> 1
      [] prio = "DEFERRED" -> 3
      [] prio = "CHOICE" -> choiceRank

Before(a, b) == a.t < b.t \/ (a.t = b.t /\ Rank(a.prio) < Rank(b.prio))

Insert(q, e) ==
    LET n == Cardinality({i \in 1..Len(q) : ~Before(e, q[i])})
    IN SubSeq(q, 1, n) \o <<e>> \o SubSeq(q, n + 1, Len(q))

\* System.schedule(source, *updates, dt, priority)
Schedule(q, src, ups, dt, prio) ==
    Insert(q, [t |-> dt, prio |-> prio, src |-> src, ups |-> ups])

\* The queue left once its head is popped and the clock moved to its time.
Popped(q) == [i \in 1..(Len(q) - 1) |-> [q[i + 1] EXCEPT !.t = @ - q[1].t]]

----------------------------------------------------------------------------
\* Input

\* _parse_input, had it skipped the keys outside the index.
RECURSIVE ParseItemsSkip(_, _, _)
ParseItemsSkip(kind, items, data) ==
    IF items = <<>> THEN [exc |-> "none", data |-> data]
    ELSE LET k == Head(items)[1]
             v == Head(items)[2]
         IN IF k \notin InFeat
            THEN ParseItemsSkip(kind, Tail(items), data)
            ELSE ParseItemsSkip(kind, Tail(items),
                    [j \in (DOMAIN data) \cup {k} |-> IF j = k THEN v ELSE data[j]])

\* Input._parse_input: the payload's items in order; the first key outside
\* main's index (or Var in a chunk) raises, and no data is returned.
RECURSIVE ParseItems(_, _, _)
ParseItems(kind, items, data) ==
    IF items = <<>> THEN [exc |-> "none", data |-> data]
    ELSE LET k == Head(items)[1]
             v == Head(items)[2]
         IN IF kind = "chunk" /\ k[2] = "VAR"
            THEN [exc |-> "TypeError", data |-> <<>>]
            ELSE IF k \notin Index("in_main")
            THEN [exc |-> "ValueError", data |-> <<>>]
            ELSE ParseItems(kind, Tail(items),
                    [j \in (DOMAIN data) \cup {k} |-> IF j = k THEN v ELSE data[j]])

ParseInput(p) == ParseItems(p.kind, p.items, <<>>)

SendMethodSwapped == IF reset THEN "write_inplace" ELSE "push"
SendMethod == IF reset THEN "push" ELSE "write_inplace"

\* Input.send, once the payload is parsed.
InputSend(q, data, dt) ==
    Schedule(q, "send", <<Update("in_main", SendMethod, data)>>, dt, "PROPAGATION")

----------------------------------------------------------------------------
\* BottomUp

Dims(feat) == {k[1] : k \in feat}

\* BottomUp's value, had the maximum been taken over the dimensions as well
\* as over the values.
BottomUpMainSingleMax(w, inp) ==
    [c \in Chunks |-> MaxOfSet({Mul(w[<<c, k[1], k[2]>>], inp[k]) : k \in DOMAIN inp})]

\* weights.mul(input).max(by=max_by).sum(by=sum_by).with_default(0):
\* per chunk, the largest product within each dimension, summed over the
\* dimensions.
BottomUpMain(w, inp) ==
    [c \in Chunks |->
        SumOver(Dims(DOMAIN inp),
            [d \in Dims(DOMAIN inp) |->
                MaxOfSet({Mul(w[<<c, k[1], k[2]>>], inp[k]) :
                            k \in {j \in DOMAIN inp : j[1] = d}})])]

\* BottomUp.update (no pre or post transform is configured)
BottomUpUpdate(q, s) ==
    Schedule(q, "bu.update",
        <<Update("bu_main", DefaultMethod, BottomUpMain(s["bu_weights"], s[BuInput]))>>,
        0, "PROPAGATION")

\* BottomUp.resolve, had it also reacted to updates of the weights.
BottomUpResolveWeights(e, s, q) ==
    IF AffectedBy(BuInput, e.ups) \/ AffectedBy("bu_weights", e.ups)
    THEN BottomUpUpdate(q, s) ELSE q

\* BottomUp.resolve
BottomUpResolve(e, s, q) ==
    IF AffectedBy(BuInput, e.ups) THEN BottomUpUpdate(q, s) ELSE q

----------------------------------------------------------------------------
\* TopDown

\* TopDown.CAM, had it kept the excitatory part only.
CAMProOnly(S) == MaxOfSet(S \cup {0})

\* TopDown.CAM over the chunk axis: the largest contribution floored at 0
\* plus the smallest contribution ceiled at 0.
CAM(S) ==
    LET pro == MaxOfSet(S \cup {0})
        con == MinOfSet(S \cup {0})
    IN Add(pro, con)

TopDownMain(w, inp) ==
    [k \in OutFeat |-> CAM({Mul(w[<<c, k[1], k[2]>>], inp[c]) : c \in Chunks})]

\* TopDown.update (no pre or post transform is configured)
TopDownUpdate(q, s) ==
    Schedule(q, "td.update",
        <<Update("td_main", DefaultMethod, TopDownMain(s["td_weights"], s[TdInput]))>>,
        0, "PROPAGATION")

\* TopDown.resolve
TopDownResolve(e, s, q) ==
    IF AffectedBy(TdInput, e.ups) THEN TopDownUpdate(q, s) ELSE q

----------------------------------------------------------------------------
\* Accumulator

\* Accumulator.update, had it written the sum to the site wired as its input.
AccUpdateInput(q, s) ==
    Schedule(q, "acc.update",
        <<Update(AccInput, DefaultMethod, NdSum(s["acc_main"], s[AccInput]))>>,
        0, "PROPAGATION")

\* Accumulator.update: main + input, read when the update is scheduled.
AccUpdate(q, s) ==
    Schedule(q, "acc.update",
        <<Update("acc_main", DefaultMethod, NdSum(s["acc_main"], s[AccInput]))>>,
        0, "PROPAGATION")

\* The payload of Accumulator.clear: the empty mapping.
ClearData == <<>>

\* Accumulator.clear, had it written the empty mapping in place.
AccClearInplace(q) ==
    Schedule(q, "acc.clear", <<Update("acc_main", "write_inplace", ClearData)>>,
        0, "PROPAGATION")

\* Accumulator.clear
AccClear(q) ==
    Schedule(q, "acc.clear", <<Update("acc_main", DefaultMethod, ClearData)>>,
        0, "PROPAGATION")

\* Accumulator.above_threshold
AccAboveThreshold(q) == Schedule(q, "acc.above_threshold", <<>>, 0, "PROPAGATION")

\* The test, had it let main reach the threshold instead of exceed it.
AboveThresholdReached(e, s) ==
    /\ e.src = "acc.update"
    /\ MaxEntry(s["acc_main"]) # NaN
    /\ MaxEntry(s["acc_main"]) >= Threshold

\* The test, had it left out the source of the event.
AboveThresholdAnySource(e, s) ==
    /\ MaxEntry(s["acc_main"]) # NaN
    /\ MaxEntry(s["acc_main"]) > Threshold

\* The test of Accumulator.resolve before it signals.
AboveThreshold(e, s) ==
    /\ e.src = "acc.update"
    /\ MaxEntry(s["acc_main"]) # NaN
    /\ MaxEntry(s["acc_main"]) > Threshold

\* Accumulator.resolve
AccResolve(e, s, q) ==
    LET q1 == IF AffectedBy(AccInput, e.ups) THEN AccUpdate(q, s) ELSE q
    IN IF AboveThreshold(e, s) THEN AccAboveThreshold(q1) ELSE q1

----------------------------------------------------------------------------
\* Choice

\* The noise normalvariate adds, independently per key.  Of its outcomes the
\* model keeps three per key: none, and the largest in either direction.
NoiseSet == [OutFeat -> {0 - NoiseMax, 0, NoiseMax}]
NoNoise == [k \in OutFeat |-> 0]

\* bias + input, perturbed.
SelectSample(s, noise) ==
    [k \in OutFeat |->
        Add(Add(s["ch_bias"][k], s[ChoiceInput][k]),
            Mul(s["ch_params"]["sd"], noise[k]))]

\* {v: 1.0 for v in choices.values()}
OneHotData(choices) ==
    [k \in {choices[g] : g \in DOMAIN choices} |-> 1]

SelectPriority == "CHOICE"
TriggerPriorityPropagation == "PROPAGATION"
TriggerPriority == "DEFERRED"

\* Choice.select, had it written the winners into main in place.
ChoiceSelectInplace(q, s, noise) ==
    LET sample == SelectSample(s, noise)
        choices == ArgMaxBy(sample)
    IN Schedule(q, "ch.select",
        <<Update("ch_main", "write_inplace", OneHotData(choices)),
          Update("ch_sample", DefaultMethod, sample)>>,
        0, SelectPriority)

\* Choice.select
ChoiceSelect(q, s, noise) ==
    LET sample == SelectSample(s, noise)
        choices == ArgMaxBy(sample)
    IN Schedule(q, "ch.select",
        <<Update("ch_main", DefaultMethod, OneHotData(choices)),
          Update("ch_sample", DefaultMethod, sample)>>,
        0, SelectPriority)

\* Choice.trigger
ChoiceTrigger(q, dt) == Schedule(q, "ch.trigger", <<>>, dt, TriggerPriority)

\* Choice.resolve
ChoiceResolve(e, s, q, noise) ==
    IF e.src = "ch.trigger" THEN ChoiceSelect(q, s, noise) ELSE q

\* Choice.poll, had it read the input in place of main.
ChoicePollInput(s) == ArgMaxBy(s[ChoiceInput])

\* Choice.poll
ChoicePoll(s) == ArgMaxBy(s["ch_main"])

----------------------------------------------------------------------------
\* Construction.

\* The weights rules.compile leaves for the rule input X >> output X: each
\* chunk is tied to the value of the same name, with weight 1.
IdentityW(feat) == [k \in WKeys(feat) |-> IF ChunkVal(k[1]) = k[3] THEN 1 ELSE 0]

\* The sites as constructed.  sd is held at 1.0, the default of Choice, which
\* bounds the 0.2 the agent passes from above.
InitSites ==
    [n \in SiteNames |->
        CASE n = "bu_weights" -> IdentityW(InFeat)
          [] n = "td_weights" -> IdentityW(OutFeat)
          [] n = "ch_params" -> [k \in {"sd"} |-> 1]
          [] OTHER -> [k \in Index(n) |-> SiteConst(n)]]

NoEvent == [src |-> "none", touched |-> {}, before |-> <<>>,
            above |-> FALSE, selected |-> FALSE, dropped |-> 0, cleared |-> FALSE]
NoPool == [inputs |-> <<>>, pre |-> <<>>]
NoPoll == [g \in {"output"} |-> <<"output", "none">>]
NoLoop == [pc |-> "start", trial |-> 0, results |-> <<>>]
NoSend == [exc |-> "none", p |-> [kind |-> "dict", items |-> <<>>]]

InitCommon ==
    /\ sites = InitSites
    /\ queue = <<>>
    /\ last = NoEvent
    /\ calls = 0
    /\ err = NoSend
    /\ polled = NoPoll
    /\ pollsSince = 0
    /\ nTouch = 0
    /\ sent = {}
    /\ nClear = 0
    /\ loop = NoLoop
    /\ pool = NoPool

----------------------------------------------------------------------------
\* System.advance: pop the earliest event, apply its updates, then let every
\* process resolve it, in the order the processes were constructed.

Resolved(e, s, q, noise) ==
    LET q1 == BottomUpResolve(e, s, q)
        q2 == TopDownResolve(e, s, q1)
        q3 == ChoiceResolve(e, s, q2, noise)
    IN AccResolve(e, s, q3)

Delivered(e) ==
    /\ last' = [src |-> e.src, touched |-> Touched(e.ups),
                before |-> [n \in Touched(e.ups) |-> sites[n]],
                above |-> IF e.src = "acc.above_threshold" THEN TRUE
                          ELSE IF e.src = "acc.clear" THEN FALSE ELSE last.above,
                selected |-> IF e.src = "ch.select" THEN TRUE
                             ELSE IF e.src = "acc.clear" THEN FALSE ELSE last.selected,
                dropped |-> IF e.src = "ch.select" THEN Len(queue) - 1 ELSE 0,
                cleared |-> IF e.src = "acc.clear" THEN TRUE
                            ELSE IF AffectedBy(AccInput, e.ups) THEN FALSE
                            ELSE last.cleared]
    /\ nTouch' = IF AffectedBy(AccInput, e.ups) THEN nTouch + 1 ELSE nTouch
    /\ pollsSince' = IF e.src = "ch.select" THEN 0 ELSE pollsSince
    /\ UNCHANGED <<calls, err, sent, nClear, choiceRank, reset, pool>>

Advance ==
    /\ queue # <<>>
    /\ LET e == Head(queue)
           s == ApplyAll(sites, e.ups)
       IN /\ sites' = s
          /\ \E noise \in (IF e.src = "ch.trigger" THEN NoiseSet ELSE {NoNoise}) :
                queue' = Resolved(e, s, Popped(queue), noise)
          /\ Delivered(e)
    /\ UNCHANGED <<polled, loop>>

----------------------------------------------------------------------------
\* Calls made from outside the processes.

Item(v, x) == <<<<"input", v>>, x>>
Dict(items) == [kind |-> "dict", items |-> items]
Chunk(items) == [kind |-> "chunk", items |-> items]

GoodPayloads ==
    {Dict(<<Item("left", 3)>>), Dict(<<Item("right", 1)>>),
     Chunk(<<Item("left", 1)>>)}
BadPayloads ==
    {Dict(<<Item("left", 1), Item("up", 1)>>),
     Dict(<<Item("up", 1), Item("left", 1)>>),
     Chunk(<<Item("left", 1), Item("VAR", 1)>>), Chunk(<<Item("up", 1)>>)}

Called == calls < MaxCalls /\ calls' = calls + 1

\* data_in.send(p, dt)
Send(p, dt) ==
    /\ Called
    /\ LET r == ParseInput(p)
       IN /\ err' = [exc |-> r.exc, p |-> p]
          /\ queue' = IF r.exc = "none" THEN InputSend(queue, r.data, dt) ELSE queue
          /\ sent' = IF r.exc = "none" THEN sent \cup {r.data} ELSE sent
    /\ UNCHANGED <<sites, last, polled, pollsSince, nTouch, nClear, choiceRank, reset, loop, pool>>

\* accumulator.clear()
Clear ==
    /\ Called
    /\ queue' = AccClear(queue)
    /\ nClear' = nClear + 1
    /\ UNCHANGED <<sites, last, err, polled, pollsSince, nTouch, sent, choiceRank, reset, loop, pool>>

\* choice.trigger(dt)
Trigger(dt) ==
    /\ Called
    /\ queue' = ChoiceTrigger(queue, dt)
    /\ UNCHANGED <<sites, last, err, polled, pollsSince, nTouch, sent, nClear, choiceRank, reset, loop, pool>>

\* choice.select()
Select ==
    /\ Called
    /\ \E noise \in NoiseSet : queue' = ChoiceSelect(queue, sites, noise)
    /\ UNCHANGED <<sites, last, err, polled, pollsSince, nTouch, sent, nClear, choiceRank, reset, loop, pool>>

\* choice.poll()
Poll ==
    /\ Called
    /\ polled' = ChoicePoll(sites)
    /\ pollsSince' = pollsSince + 1
    /\ UNCHANGED <<sites, queue, last, err, nTouch, sent, nClear, choiceRank, reset, loop, pool>>

\* An event from elsewhere that writes a weights site and nothing else.
WeightsWrite(site, w) ==
    /\ Called
    /\ queue' = Schedule(queue, "ext", <<Update(site, "push", w)>>, 0, "PROPAGATION")
    /\ UNCHANGED <<sites, last, err, polled, pollsSince, nTouch, sent, nClear, choiceRank, reset, loop, pool>>

----------------------------------------------------------------------------
\* The accumulator fed through the chain: sends of non-negative evidence,
\* clears, and deliveries, in any order.

InitAcc == InitCommon /\ choiceRank = 0 /\ reset = TRUE

NextAcc ==
    \/ \E p \in {Dict(<<Item("left", 1)>>), Dict(<<Item("left", 3)>>)} : Send(p, 0)
    \/ Clear
    \/ Advance

SpecAcc == InitAcc /\ [][NextAcc]_vars

----------------------------------------------------------------------------
\* The choice process at the end of the chain: sends, triggers, direct
\* selects and polls, now or one instant later, and deliveries.

Biases == {[k \in OutFeat |-> 0], [k \in OutFeat |-> IF k[2] = "right" THEN 1 ELSE 0]}

InitChoice ==
    /\ \E b \in Biases :
        sites = [InitSites EXCEPT !["ch_bias"] = b]
    /\ queue = <<>> /\ last = NoEvent /\ calls = 0 /\ err = NoSend
    /\ polled = NoPoll /\ pollsSince = 0 /\ nTouch = 0 /\ sent = {} /\ nClear = 0
    /\ loop = NoLoop
    /\ pool = NoPool
    /\ choiceRank \in {0, 2, 4}
    /\ reset = TRUE

NextChoice ==
    \/ Send(Dict(<<Item("right", 1)>>), 0)
    \/ Select
    \/ Poll
    \/ Advance

SpecChoice == InitChoice /\ [][NextChoice]_vars

\* The same with triggers in place of direct selects.
NextTrigger ==
    \/ Send(Dict(<<Item("left", 1)>>), 0)
    \/ \E dt \in {0, 1} : Trigger(dt)
    \/ Advance

SpecTrigger == InitChoice /\ [][NextTrigger]_vars

\* The input end of the chain: sends of well-formed and ill-formed
\* payloads, now or one instant later, writes to the weights, deliveries.

InitInput == InitCommon /\ choiceRank = 0 /\ reset \in BOOLEAN

NextInput ==
    \/ \E p \in GoodPayloads \cup BadPayloads, dt \in {0, 1} : Send(p, dt)
    \/ \E site \in {"bu_weights", "td_weights"} : WeightsWrite(site, [k \in Index(site) |-> 0])
    \/ Advance

SpecInput == InitInput /\ [][NextInput]_vars

\* The chain left to itself: one send, now or one instant later, on a chain
\* whose accumulator holds evidence of earlier sends, and deliveries until
\* nothing is pending.  System.advance is called as long as the queue holds
\* an event.
MainsBelow == [OutFeat -> 0..Threshold]

InitChain ==
    /\ \E m \in MainsBelow : sites = [InitSites EXCEPT !["acc_main"] = m]
    /\ queue = <<>> /\ last = NoEvent /\ calls = 0 /\ err = NoSend
    /\ polled = NoPoll /\ pollsSince = 0 /\ nTouch = 0 /\ sent = {} /\ nClear = 0
    /\ loop = NoLoop /\ pool = NoPool
    /\ choiceRank = 0
    /\ reset = TRUE

NextChain ==
    \/ \E p \in GoodPayloads, dt \in {0, 1} : calls = 0 /\ Send(p, dt)
    \/ Advance

SpecChain == InitChain /\ [][NextChain]_vars /\ WF_vars(Advance)

----------------------------------------------------------------------------
\* BottomUp and TopDown on their own: update() called from outside on
\* weights and inputs of any value, over two dimensions of two values each.

Feat == InFeat \cup OutFeat
WVals == {0 - 1, 0, 1, 2}

\* bottom_up.update()
BuUpdateCall ==
    /\ Called
    /\ queue' = BottomUpUpdate(queue, sites)
    /\ UNCHANGED <<sites, last, err, polled, pollsSince, nTouch, sent, nClear, choiceRank, reset, loop, pool>>

\* top_down.update()
TdUpdateCall ==
    /\ Called
    /\ queue' = TopDownUpdate(queue, sites)
    /\ UNCHANGED <<sites, last, err, polled, pollsSince, nTouch, sent, nClear, choiceRank, reset, loop, pool>>

InitBottomUp ==
    /\ \E w \in [{k \in WKeys(Feat) : k[1] = "cl"} -> WVals], x \in [Feat -> {0, 1}] :
        sites = [InitSites EXCEPT
                    !["bu_weights"] = [k \in WKeys(Feat) |->
                        IF k[1] = "cl" THEN w[k] ELSE IdentityW(Feat)[k]],
                    !["in_main"] = x]
    /\ queue = <<>> /\ last = NoEvent /\ calls = 0 /\ err = NoSend
    /\ polled = NoPoll /\ pollsSince = 0 /\ nTouch = 0 /\ sent = {} /\ nClear = 0
    /\ loop = NoLoop /\ pool = NoPool
    /\ choiceRank = 0
    /\ reset = TRUE

NextBottomUp == BuUpdateCall \/ Advance

SpecBottomUp == InitBottomUp /\ [][NextBottomUp]_vars

InitTopDown ==
    /\ \E w \in [WKeys(OutFeat) -> WVals], x \in [Chunks -> {0 - 1, 0, 1}] :
        sites = [InitSites EXCEPT !["td_weights"] = w, !["bu_main"] = x]
    /\ queue = <<>> /\ last = NoEvent /\ calls = 0 /\ err = NoSend
    /\ polled = NoPoll /\ pollsSince = 0 /\ nTouch = 0 /\ sent = {} /\ nClear = 0
    /\ loop = NoLoop /\ pool = NoPool
    /\ choiceRank = 0
    /\ reset = TRUE

NextTopDown == TdUpdateCall \/ Advance

SpecTopDown == InitTopDown /\ [][NextTopDown]_vars

----------------------------------------------------------------------------
\* Pool: a pool over the output features, next to the agent's processes.
\* Its sites are main and params (the gains, one per registered input).

PoolNames == {"a", "b"}

\* What pool[name] = value can be given: a site, a (site, pre) pair, or
\* something that is no site.
SiteValue(site, pre) == [kind |-> "site", items |-> <<site, pre>>]
OtherValue == [kind |-> "other", items |-> <<"none", "none">>]
PoolValues ==
    {SiteValue("td_main", "none"), SiteValue("acc_main", "neg"),
     SiteValue("bu_main", "none"), OtherValue}

\* self.main.index.kf <= site.index.kf, on the keys the forms admit.
KfSubsumed(site) == Index("pool_main") \subseteq Index(site)

\* Pool.__setitem__, had it checked the key form after registering.
PoolSetItemLate(pl, params, name, value) ==
    IF value.kind # "site"
    THEN [exc |-> "TypeError", pool |-> pl, params |-> params]
    ELSE [exc |-> IF KfSubsumed(value.items[1]) THEN "none" ELSE "ValueError",
          pool |-> [inputs |-> [k \in (DOMAIN pl.inputs) \cup {name} |->
                                    IF k = name THEN value.items[1] ELSE pl.inputs[k]],
                    pre |-> pl.pre],
          params |-> [k \in (DOMAIN params) \cup {name} |->
                        IF k = name THEN 1 ELSE params[k]]]

\* Pool.__setitem__: the registry, the pre-transforms and the gains it
\* leaves, and what it raises.
PoolSetItem(pl, params, name, value) ==
    IF value.kind # "site"
    THEN [exc |-> "TypeError", pool |-> pl, params |-> params]
    ELSE IF ~KfSubsumed(value.items[1])
    THEN [exc |-> "ValueError", pool |-> pl, params |-> params]
    ELSE [exc |-> "none",
          pool |-> [inputs |-> [k \in (DOMAIN pl.inputs) \cup {name} |->
                                    IF k = name THEN value.items[1] ELSE pl.inputs[k]],
                    pre |-> IF value.items[2] = "none" THEN pl.pre
                            ELSE [k \in (DOMAIN pl.pre) \cup {name} |->
                                    IF k = name THEN value.items[2] ELSE pl.pre[k]]],
          params |-> [k \in (DOMAIN params) \cup {name} |->
                        IF k = name THEN 1 ELSE params[k]]]

\* s[0].pipe(pre): the one pre-transform the model registers negates.
Piped(pre, f) == IF pre = "neg" THEN [k \in DOMAIN f |-> Mul(0 - 1, f[k])] ELSE f

\* The inputs of Pool.update: each registered site, pre-transformed if a
\* pre-transform is registered for it, scaled by its gain.
PoolInputs(pl, s) ==
    [k \in DOMAIN pl.inputs |->
        LET f == IF k \in DOMAIN pl.pre THEN Piped(pl.pre[k], s[pl.inputs[k]])
                 ELSE s[pl.inputs[k]]
        IN [j \in DOMAIN f |-> Mul(s["pool_params"][k], f[j])]]

\* Pool.CAM, had it summed its inputs.
PoolCAMSum(main, ins) ==
    [j \in DOMAIN main |-> SumOver(DOMAIN ins, [k \in DOMAIN ins |-> ins[k][j]])]

\* Pool.CAM: main.max(*numdicts) plus main.min(*numdicts), elementwise.
PoolCAM(main, ins) ==
    [j \in DOMAIN main |->
        LET vals == {main[j]} \cup {ins[k][j] : k \in DOMAIN ins}
        IN Add(MaxOfSet(vals), MinOfSet(vals))]

\* Pool.update (no post transform is configured)
PoolUpdate(q, pl, s) ==
    Schedule(q, "pool.update",
        <<Update("pool_main", DefaultMethod,
            PoolCAM([j \in Index("pool_main") |-> SiteConst("pool_main")],
                    PoolInputs(pl, s)))>>,
        0, "PROPAGATION")

\* Pool.resolve
PoolResolve(e, pl, s, q) ==
    IF \/ AffectedBy("pool_params", e.ups)
       \/ \E k \in DOMAIN pl.inputs : AffectedBy(pl.inputs[k], e.ups)
    THEN PoolUpdate(q, pl, s) ELSE q

\* pool[name] = value
Register(name, value) ==
    /\ Called
    /\ name \notin DOMAIN pool.inputs
    /\ LET r == PoolSetItem(pool, sites["pool_params"], name, value)
       IN /\ err' = [exc |-> r.exc, p |-> value]
          /\ pool' = r.pool
          /\ sites' = [sites EXCEPT !["pool_params"] = r.params]
    /\ UNCHANGED <<queue, last, polled, pollsSince, nTouch, sent, nClear, choiceRank, reset, loop>>

\* An event from elsewhere that sets the gain of a registered input.
GainWrite(k, g) ==
    /\ Called
    /\ k \in DOMAIN pool.inputs
    /\ queue' = Schedule(queue, "ext",
                    <<Update("pool_params", "write_inplace", [j \in {k} |-> g])>>,
                    0, "PROPAGATION")
    /\ UNCHANGED <<sites, last, err, polled, pollsSince, nTouch, sent, nClear, choiceRank, reset, loop, pool>>

\* System.advance with the pool among the processes.
AdvancePool ==
    /\ queue # <<>>
    /\ LET e == Head(queue)
           s == ApplyAll(sites, e.ups)
       IN /\ sites' = s
          /\ queue' = PoolResolve(e, pool, s, Resolved(e, s, Popped(queue), NoNoise))
          /\ Delivered(e)
    /\ UNCHANGED <<polled, loop>>

PoolSources == {[k \in OutFeat |-> 0],
                [k \in OutFeat |-> IF k[2] = "left" THEN 2 ELSE 0 - 1],
                [k \in OutFeat |-> IF k[2] = "left" THEN 0 - 1 ELSE 1]}

InitPool ==
    /\ \E x \in PoolSources, y \in PoolSources :
        sites = [n \in SiteNames \cup {"pool_main", "pool_params"} |->
                    CASE n = "pool_main" -> [k \in OutFeat |-> 0]
                      [] n = "pool_params" -> <<>>
                      [] n = "td_main" -> x
                      [] n = "acc_main" -> y
                      [] OTHER -> InitSites[n]]
    /\ queue = <<>> /\ last = NoEvent /\ calls = 0 /\ err = NoSend
    /\ polled = NoPoll /\ pollsSince = 0 /\ nTouch = 0 /\ sent = {} /\ nClear = 0
    /\ loop = NoLoop /\ pool = NoPool
    /\ choiceRank = 0
    /\ reset = TRUE

NextPool ==
    \/ \E name \in PoolNames, value \in PoolValues : Register(name, value)
    \/ \E k \in PoolNames : GainWrite(k, 2)
    \/ Clear
    \/ AdvancePool

SpecPool == InitPool /\ [][NextPool]_vars

----------------------------------------------------------------------------
\* AccumulationAgent and the trial loop of agent.py.

\* fixed_rules.trigger(dt): an event without updates.
FrTrigger(q, dt) == Schedule(q, "fr.trigger", <<>>, dt, "DEFERRED")

\* The rule network on its trigger: the rules are matched against the
\* current input again, which sends it up and down the chain once more.
FixedRulesResolve(e, s, q) ==
    IF e.src = "fr.trigger" THEN BottomUpUpdate(q, s) ELSE q

\* AccumulationAgent.resolve, had it selected on every accumulation step.
AgentResolveOnUpdate(e, s, q, noise) ==
    LET q1 == IF e.src = "acc.update" THEN ChoiceSelect(q, s, noise) ELSE q
    IN IF e.src = "ch.select" THEN AccClear(<<>>) ELSE q1

\* AccumulationAgent.resolve, had it kept the queue on a select event.
AgentResolveKeep(e, s, q, noise) ==
    LET q1 == IF e.src = "acc.above_threshold" THEN ChoiceSelect(q, s, noise) ELSE q
    IN IF e.src = "ch.select" THEN AccClear(q1) ELSE q1

\* AccumulationAgent.resolve
AgentResolve(e, s, q, noise) ==
    LET q1 == IF e.src = "acc.above_threshold" THEN ChoiceSelect(q, s, noise) ELSE q
    IN IF e.src = "ch.select" THEN AccClear(<<>>) ELSE q1

ResolvedAgent(e, s, q, noise) ==
    LET q1 == AgentResolve(e, s, q, noise)
        q2 == FixedRulesResolve(e, s, q1)
    IN Resolved(e, s, q2, noise)

\* The trials: the first half left, the second half right.
TrialAt(i) ==
    Chunk(<<Item(IF 2 * i < MaxTrials THEN "left" ELSE "right", 1)>>)

\* The head of the for loop: clear, send, trigger.
TrialStart ==
    /\ loop.pc = "start"
    /\ loop.trial < MaxTrials
    /\ LET r == ParseInput(TrialAt(loop.trial))
           q1 == AccClear(queue)
           q2 == InputSend(q1, r.data, 0)
       IN /\ queue' = FrTrigger(q2, 1)
          /\ err' = [exc |-> r.exc, p |-> TrialAt(loop.trial)]
          /\ sent' = sent \cup {r.data}
    /\ nClear' = nClear + 1
    /\ loop' = [loop EXCEPT !.pc = "loop"]
    /\ UNCHANGED <<sites, last, calls, polled, pollsSince, nTouch, choiceRank, reset, pool>>

\* One turn of the while loop, had it left out triggering the rules again.
LoopStepNoRetrigger ==
    /\ loop.pc = "loop"
    /\ queue # <<>>
    /\ LET e == Head(queue)
           s == ApplyAll(sites, e.ups)
       IN /\ sites' = s
          /\ \E noise \in (IF e.src = "acc.above_threshold" THEN NoiseSet ELSE {NoNoise}) :
                queue' = ResolvedAgent(e, s, Popped(queue), noise)
          /\ Delivered(e)
          /\ IF e.src = "ch.select"
             THEN /\ polled' = ChoicePoll(s)
                  /\ loop' = [pc |-> "start", trial |-> loop.trial + 1,
                              results |-> Append(loop.results, ChoicePoll(s))]
             ELSE UNCHANGED <<polled, loop>>

\* One turn of the while loop: advance, then record the decision and leave
\* on a select event, or trigger the rules again on their trigger event.
LoopStep ==
    /\ loop.pc = "loop"
    /\ queue # <<>>
    /\ LET e == Head(queue)
           s == ApplyAll(sites, e.ups)
       IN /\ sites' = s
          /\ \E noise \in (IF e.src = "acc.above_threshold" THEN NoiseSet ELSE {NoNoise}) :
                LET q == ResolvedAgent(e, s, Popped(queue), noise)
                IN queue' = IF e.src = "fr.trigger" THEN FrTrigger(q, 1) ELSE q
          /\ Delivered(e)
          /\ IF e.src = "ch.select"
             THEN /\ polled' = ChoicePoll(s)
                  /\ loop' = [pc |-> "start", trial |-> loop.trial + 1,
                              results |-> Append(loop.results, ChoicePoll(s))]
             ELSE UNCHANGED <<polled, loop>>

InitAgent == InitCommon /\ choiceRank \in {0, 2, 4} /\ reset = TRUE

NextAgent == TrialStart \/ LoopStep

SpecAgent == InitAgent /\ [][NextAgent]_vars

\* The script runs on: the interpreter takes the next statement of the loop
\* whenever there is one.
SpecAgentLive == SpecAgent /\ WF_vars(NextAgent)

----------------------------------------------------------------------------
\* Properties of the accumulator.

AccMax == MaxEntry(sites["acc_main"])
AllZero(f) == \A k \in DOMAIN f : f[k] = 0

\* C1: after N delivered events that touched accumulator.input, each with
\* the input holding the same x, and no clear, the largest entry of main is
\* N*x once the queue has drained.
C1_AccumulatesEveryTouch ==
    (queue = <<>> /\ nClear = 0 /\ Cardinality(sent) = 1 /\ nTouch >= 1)
        => AccMax = nTouch * MaxEntry(sites[AccInput])

\* C2: once the update scheduled by accumulator.clear() is applied, every
\* entry of main is zero, whatever main held before.
C2_ClearZeroes == last.src = "acc.clear" => AllZero(sites["acc_main"])

\* A clear applied to a main that held accumulated evidence.
C2_Witness ==
    /\ last.src = "acc.clear"
    /\ MaxEntry(last.before["acc_main"]) >= 2
    /\ AllZero(sites["acc_main"])

\* C3: once the largest entry of main exceeds the threshold it stays above
\* it in every step that does not apply a clear.
C3_CrossingMonotonic ==
    [][(AccMax > Threshold /\ ~(queue # <<>> /\ Head(queue).src = "acc.clear"))
            => MaxEntry(sites'["acc_main"]) > Threshold]_vars

----------------------------------------------------------------------------
\* Properties of the choice process.

\* Exactly one key of every group holds 1, every other key 0.
OneHot(f) ==
    \A g \in Groups(f) :
        LET ks == {k \in DOMAIN f : k[1] = g}
        IN /\ Cardinality({k \in ks : f[k] = 1}) = 1
           /\ \A k \in ks : f[k] \in {0, 1}

\* C5: once the event scheduled by Choice.select() is applied, main is
\* one-hot per decision group, whatever it held before.
C5_SelectOneHot == last.src = "ch.select" => OneHot(sites["ch_main"])

\* A select applied over the result of an earlier select that chose the
\* other key.
C5_Witness ==
    /\ last.src = "ch.select"
    /\ OneHot(last.before["ch_main"])
    /\ last.before["ch_main"] # sites["ch_main"]
    /\ OneHot(sites["ch_main"])

\* C6: Choice.poll() changes no site and schedules nothing, and returns what
\* the poll before it returned unless a select event was applied in between.
C6_PollPure ==
    [][Poll => /\ sites' = sites
               /\ queue' = queue
               /\ (pollsSince >= 1 => polled' = polled)]_vars

\* Two polls in a row after a select chose the second key of the group.
C6_Witness ==
    /\ pollsSince >= 2
    /\ last.src = "ch.select"
    /\ polled["output"] = <<"output", "right">>

----------------------------------------------------------------------------
\* Properties of triggers.

CountSrc(q, src) == Cardinality({i \in 1..Len(q) : q[i].src = src})

\* q2 is q with the one event e put in somewhere.
AddsOnly(q, q2, e) ==
    \E i \in 1..Len(q2) :
        /\ q2[i] = e
        /\ q = SubSeq(q2, 1, i - 1) \o SubSeq(q2, i + 1, Len(q2))

PendingNow(q, prio) == {i \in 1..Len(q) : q[i].t = 0 /\ q[i].prio = prio}

\* C7: Choice.trigger() changes no site and schedules one event without
\* updates at DEFERRED priority; select runs only on the delivery of that
\* event, and by then no PROPAGATION action of that instant is pending.
C7_TriggerDefers ==
    /\ [][\A dt \in {0, 1} :
            Trigger(dt) =>
                /\ sites' = sites
                /\ AddsOnly(queue, queue',
                        [t |-> dt, prio |-> "DEFERRED", src |-> "ch.trigger", ups |-> <<>>])
                /\ CountSrc(queue', "ch.select") = CountSrc(queue, "ch.select")]_vars
    /\ [][CountSrc(queue', "ch.select") > CountSrc(queue, "ch.select")
            => /\ Advance
               /\ Head(queue).src = "ch.trigger"
               /\ PendingNow(queue, "PROPAGATION") = {}
               /\ PendingNow(queue', "PROPAGATION") = {}
               /\ \E i \in 1..Len(queue') :
                    /\ queue'[i].src = "ch.select"
                    /\ \E noise \in NoiseSet :
                        queue'[i].ups[2].data = SelectSample(sites, noise)]_vars

\* A trigger delivered once the cascade of a send of the same instant has
\* reached the accumulator.
C7_Witness ==
    /\ last.src = "ch.trigger"
    /\ sites["acc_main"][<<"output", "left">>] = 1
    /\ CountSrc(queue, "ch.select") = 1
    /\ PendingNow(queue, "PROPAGATION") = {}

----------------------------------------------------------------------------
\* Properties of Input.

AllPayloads == GoodPayloads \cup BadPayloads

\* Some key of the payload is outside main's index.
HasUnknownKey(p) == \E i \in 1..Len(p.items) : p.items[i][1] \notin Index("in_main")

\* The mapping a payload's items give.
DataOf(p) ==
    [k \in {p.items[i][1] : i \in 1..Len(p.items)} |->
        LET i == CHOOSE j \in 1..Len(p.items) : p.items[j][1] = k IN p.items[i][2]]

\* C8: a successful Input.send changes no site and schedules exactly one
\* event with exactly one update, on the Input's main: a push when reset is
\* set and an in-place write otherwise.  Applied, the push leaves only the
\* payload's keys set and the in-place write keeps the other keys.
C8_SendOneUpdate ==
    /\ [][\A p \in AllPayloads, dt \in {0, 1} :
            (Send(p, dt) /\ ~HasUnknownKey(p)) =>
                /\ sites' = sites
                /\ AddsOnly(queue, queue',
                        [t |-> dt, prio |-> "PROPAGATION", src |-> "send",
                         ups |-> <<[site |-> "in_main",
                                    method |-> IF reset THEN "push" ELSE "write_inplace",
                                    data |-> DataOf(p)]>>])]_vars
    /\ [][(Advance /\ Head(queue).src = "send") =>
            LET d == Head(queue).ups[1].data
            IN sites' = [sites EXCEPT !["in_main"] =
                    [k \in InFeat |->
                        IF k \in DOMAIN d THEN d[k]
                        ELSE IF reset THEN 0 ELSE sites["in_main"][k]]]]_vars

\* An in-place send applied over a key an earlier send wrote.
C8_Witness ==
    /\ last.src = "send"
    /\ ~reset
    /\ sites["in_main"][<<"input", "left">>] = 3
    /\ sites["in_main"][<<"input", "right">>] = 1

\* C9: Input.send with a key outside main's index raises, schedules nothing
\* and changes no site, also when other keys of the payload are in the index.
C9_UnknownKeyRaises ==
    [][\A p \in AllPayloads, dt \in {0, 1} :
        (Send(p, dt) /\ HasUnknownKey(p)) =>
            /\ err'.exc \in {"ValueError", "TypeError"}
            /\ queue' = queue
            /\ sites' = sites]_vars

\* A send that raised on its second key, the first being in the index.
C9_Witness ==
    /\ err.exc = "ValueError"
    /\ Len(err.p.items) = 2
    /\ err.p.items[1][1] \in Index("in_main")
    /\ queue = <<>>
    /\ sites = InitSites

----------------------------------------------------------------------------
\* Properties of BottomUp and TopDown.

\* The step schedules an event of the source: the queue holds more of them
\* than were left pending.
Scheduled(src) ==
    CountSrc(queue', src) > CountSrc(IF Advance THEN Tail(queue) ELSE queue, src)

\* C10 as amended: BottomUp and TopDown schedule a recomputation of main
\* exactly when a delivered event has an update on their input site, whether
\* or not the input's value changed; an event with updates on the weights
\* only schedules none.
C10_RecomputeOnTouch ==
    [][/\ Scheduled("bu.update") <=>
            (Advance /\ AffectedBy(BuInput, Head(queue).ups))
       /\ Scheduled("td.update") <=>
            (Advance /\ AffectedBy(TdInput, Head(queue).ups))]_vars

\* A write to the weights delivered, and no recomputation pending.
C10_Witness ==
    /\ last.src = "ext"
    /\ "bu_weights" \in last.touched
    /\ CountSrc(queue, "bu.update") = 0
    /\ sites["in_main"][<<"input", "left">>] = 1

\* C10 as stated: moreover no recomputation is scheduled when the input's
\* value is unchanged.
C10_RecomputeOnlyOnChange ==
    [][/\ Scheduled("bu.update") <=>
            (Advance /\ AffectedBy(BuInput, Head(queue).ups))
       /\ Scheduled("td.update") <=>
            (Advance /\ AffectedBy(TdInput, Head(queue).ups))
       /\ Scheduled("bu.update") => sites'[BuInput] # sites[BuInput]
       /\ Scheduled("td.update") => sites'[TdInput] # sites[TdInput]]_vars

----------------------------------------------------------------------------
\* Properties of the agent's chain.

AbovePending == CountSrc(queue, "acc.above_threshold") >= 1
Left == <<"output", "left">>

----------------------------------------------------------------------------
\* Properties of the accumulator's signal.

----------------------------------------------------------------------------
\* Properties of the agent's wiring and decision loop.

\* The sites a process owns, by the source of the events it issues.
Owned(src) ==
    CASE src = "send" -> {"in_main"}
      [] src = "bu.update" -> {"bu_main"}
      [] src = "td.update" -> {"td_main"}
      [] src \in {"acc.update", "acc.clear", "acc.above_threshold"} -> {"acc_main"}
      [] src \in {"ch.select", "ch.trigger"} -> {"ch_main", "ch_sample"}
      [] src = "pool.update" -> {"pool_main"}
      [] OTHER -> {}

\* The processes with a pending update on the site.
Writers(site) ==
    {Owned(queue[i].src) : i \in {j \in 1..Len(queue) : site \in Touched(queue[j].ups)}}

\* C15: every update a process schedules targets a site the process owns,
\* none the site wired as its input, so every site has at most one writer.
C15_WritesOwnSites ==
    /\ \A i \in 1..Len(queue) : Touched(queue[i].ups) \subseteq Owned(queue[i].src)
    /\ \A site \in DOMAIN sites : Cardinality(Writers(site)) <= 1
    /\ BuInput \notin Owned("bu.update")
    /\ TdInput \notin Owned("td.update")
    /\ AccInput \notin Owned("acc.update")
    /\ ChoiceInput \notin Owned("ch.select")

\* The select that an accumulator wired to td.main and feeding choice.input
\* brought about, pending with its two updates.
C15_Witness ==
    /\ last.src = "acc.above_threshold"
    /\ \E i \in 1..Len(queue) :
        /\ queue[i].src = "ch.select"
        /\ Touched(queue[i].ups) = {"ch_main", "ch_sample"}
    /\ sites[AccInput][Left] = 1

\* C16: in the agent's loop every select event delivered follows an
\* above_threshold event delivered since the last clear was applied, and no
\* accumulation update is applied after a select event until a clear is.
C16_LoopOrder ==
    /\ [][(LoopStep /\ Head(queue).src = "ch.select") => last.above]_vars
    /\ [][(LoopStep /\ Head(queue).src = "acc.update") => ~last.selected]_vars

\* The first accumulation step of the second trial, the clear applied.
C16_Witness ==
    /\ last.src = "acc.update"
    /\ loop.trial = 1
    /\ ~last.selected
    /\ ~last.above
    /\ nTouch = 6

\* C17: when the agent handles a select event everything pending is
\* dropped, and once every process has reacted the accumulator's clear is
\* the only pending action.
C17_SelectDropsPending ==
    [][(LoopStep /\ Head(queue).src = "ch.select") =>
        queue' = <<[t |-> 0, prio |-> "PROPAGATION", src |-> "acc.clear",
                    ups |-> <<[site |-> "acc_main", method |-> "push",
                               data |-> <<>>]>>]>>]_vars

\* A select event handled while the rules' next trigger was pending.
C17_Witness ==
    /\ last.src = "ch.select"
    /\ last.dropped >= 1
    /\ Len(queue) = 1
    /\ queue[1].src = "acc.clear"

----------------------------------------------------------------------------
\* Properties of the values BottomUp and TopDown write.

TopOf(S) == CHOOSE x \in S : \A y \in S : y <= x
BottomOf(S) == CHOOSE x \in S : \A y \in S : x <= y

\* weight(k, d, v) * input(d, v), for the features F of chunk k.
BuProducts(k, F) == {sites["bu_weights"][<<k, f[1], f[2]>>] * sites["in_main"][f] : f \in F}

TdContributions(f) ==
    {sites["td_weights"][<<c, f[1], f[2]>>] * sites["bu_main"][c] : c \in Chunks}

\* C12: the value TopDown.update writes at a cell is the largest positive
\* contribution (0 if there is none) plus the smallest negative one (0 if
\* there is none); with all weights 0 main is 0 everywhere.
C12_TopDownCAM ==
    last.src = "td.update" =>
        /\ \A f \in OutFeat :
            LET C == TdContributions(f)
                hi == IF \E x \in C : x > 0 THEN TopOf(C) ELSE 0
                lo == IF \E x \in C : x < 0 THEN BottomOf(C) ELSE 0
            IN sites["td_main"][f] = hi + lo
        /\ (\A k \in WKeys(OutFeat) : sites["td_weights"][k] = 0)
                => AllZero(sites["td_main"])

\* An update applied to a cell with one positive and one negative
\* contribution.
C12_Witness ==
    /\ last.src = "td.update"
    /\ sites["td_weights"][<<"cl", "output", "left">>] * sites["bu_main"]["cl"] = 2
    /\ sites["td_weights"][<<"cr", "output", "left">>] * sites["bu_main"]["cr"] = 0 - 1
    /\ sites["td_main"][Left] = 1

----------------------------------------------------------------------------
\* Properties of Pool.

\* The gain-scaled, pre-transformed inputs at key j.
Scaled(s, pl, j) ==
    {s["pool_params"][k] *
        (IF k \in DOMAIN pl.pre /\ pl.pre[k] = "neg" THEN 0 - 1 ELSE 1) *
        s[pl.inputs[k]][j] : k \in DOMAIN pl.inputs}

\* C13: the value Pool.update writes at a key is the largest of 0 and the
\* gain-scaled inputs at the key plus the smallest of 0 and the gain-scaled
\* inputs at the key.
C13_PoolCAM ==
    [][Scheduled("pool.update") =>
        LET d == queue'[Len(queue')].ups[1].data
        IN \A j \in OutFeat :
            LET G == Scaled(sites', pool', j)
                hi == IF \E x \in G : x > 0 THEN TopOf(G) ELSE 0
                lo == IF \E x \in G : x < 0 THEN BottomOf(G) ELSE 0
            IN d[j] = hi + lo]_vars

\* A pooled value applied that two inputs of opposite sign and a gain of 2
\* produced.
C13_Witness ==
    /\ last.src = "pool.update"
    /\ Cardinality(DOMAIN pool.inputs) = 2
    /\ \E k \in DOMAIN pool.inputs : sites["pool_params"][k] = 2
    /\ \E j \in OutFeat :
        LET G == Scaled(sites, pool, j)
        IN /\ \E x \in G : x > 0
           /\ \E x \in G : x < 0
           /\ sites["pool_main"][j] = TopOf(G) + BottomOf(G)

\* C14: the value of a site changes only in a step that applies the updates
\* of the event at the head of the queue.
C14_OnlyEventsWrite ==
    [][sites' # sites =>
        /\ queue # <<>>
        /\ sites' = ApplyAll(sites, Head(queue).ups)]_vars

\* The values pool[name] = value rejects.
Rejected(value) == value.kind = "other" \/ value.items[1] = "bu_main"

----------------------------------------------------------------------------
\* Properties of the propagation along the chain.

\* The place of an event's source along the chain.
ChainStage(src) ==
    CASE src = "send" -> 1
      [] src = "bu.update" -> 2
      [] src = "td.update" -> 3
      [] src = "acc.update" -> 4
      [] src = "acc.above_threshold" -> 5
      [] OTHER -> 0

----------------------------------------------------------------------------
\* Properties of the trial loop.

Right == <<"output", "right">>

\* C22: in the trial loop, where every accumulation step carries evidence
\* 1.0, every trial comes to the delivery of a select event, records one
\* result and ends: the while loop is never left with the queue empty and no
\* decision, the results are as many as the trials ended, and the loop does
\* not go on triggering the rules for ever.
C22_TrialsDecide ==
    /\ [](loop.pc = "loop" => queue # <<>>)
    /\ [](Len(loop.results) = loop.trial)
    /\ [][loop'.trial # loop.trial =>
            /\ Head(queue).src = "ch.select"
            /\ loop'.trial = loop.trial + 1
            /\ MaxEntry(sites[AccInput]) > 0]_vars
    /\ \A i \in 0..(MaxTrials - 1) :
            (loop.pc = "loop" /\ loop.trial = i) ~>
                (loop.pc = "start" /\ loop.trial = i + 1 /\ last.src = "ch.select")

\* The last trial decided and recorded, after the first.
C22_Witness ==
    /\ loop.pc = "start"
    /\ loop.trial = MaxTrials
    /\ Len(loop.results) = MaxTrials
    /\ loop.results[MaxTrials]["output"] = Right
    /\ last.src = "ch.select"

\* C23: in the agent, whenever Choice.select() computes its sample, the
\* event being handled is the accumulator's above_threshold signal, the
\* event delivered just before was the accumulation update that crossed the
\* threshold, and accumulator.main, which the signal left as that update
\* wrote it, has its largest entry above the threshold: the sample is drawn
\* from that value, never from cleared or earlier evidence.
C23_SelectReadsCrossed ==
    [][Scheduled("ch.select") =>
        /\ Head(queue).src = "acc.above_threshold"
        /\ last.src = "acc.update"
        /\ last.touched = {"acc_main"}
        /\ sites' = sites
        /\ ChoiceInput = "acc_main"
        /\ MaxEntry(sites[ChoiceInput]) > Threshold
        /\ \E i \in 1..Len(queue') :
                /\ queue'[i].src = "ch.select"
                /\ \A k \in OutFeat :
                        queue'[i].ups[2].data[k] - sites["acc_main"][k]
                            \in {0 - NoiseMax, 0, NoiseMax}]_vars

\* The select of the second trial pending, its sample drawn from a main
\* that holds 5.0 for right.
C23_Witness ==
    /\ loop.trial = 1
    /\ last.src = "acc.above_threshold"
    /\ sites["acc_main"][Right] = Threshold + 1
    /\ queue # <<>>
    /\ queue[1].src = "ch.select"
    /\ queue[1].ups[2].data[Right] >= Threshold

----------------------------------------------------------------------------
\* Properties of the accumulator under clears.

\* C24: whatever the order of sends, accumulation updates and clears, once
\* a clear has been applied main stays zero until an event that touches the
\* accumulator's input is delivered: no update of main computed before the
\* clear is applied after it.
C24_ClearedStaysZero == last.cleared => AllZero(sites["acc_main"])

====
